---- MODULE Spec2Model ----
(***************************************************************************)
(* The driver side of the network-interception event protocol:             *)
(* packages/driver/src/cy/net-stubbing/events/index.ts (registerEvents).   *)
(*                                                                         *)
(* The state is the driver-wide store Cypress.state (only its 'routes'     *)
(* key is used), the outbound emitNetEvent round trips that have not       *)
(* settled, the setImmediate callbacks failCurrentTest has scheduled, and  *)
(* a record of what the last step did.  The three lifecycle handlers       *)
(* (request-received, response-received, request-complete) and the route   *)
(* registration API are imported by index.ts but live in other files;      *)
(* they are modelled from the design document.                             *)
(*                                                                         *)
(* The last part of the module is the server side's configuration merge,   *)
(* packages/server/lib/config.js (mergeDefaults, parseEnv,                 *)
(* updateWithPluginValues).  It has a variable and a specification of its  *)
(* own, ConfigSpec; the driver's steps leave that variable alone.          *)
(***************************************************************************)
EXTENDS Integers, Sequences, FiniteSets, Bags, TLC

VARIABLES state, pending, immediates, last, project

vars == <<state, pending, immediates, last>>

(***************************************************************************)
(* Bounds of the model.                                                    *)
(***************************************************************************)
MaxPending == 1      \* emitNetEvent round trips outstanding at once
MaxImmediates == 1   \* setImmediate callbacks queued at once

(***************************************************************************)
(* Values.                                                                 *)
(***************************************************************************)
\* Identifiers the route registration API hands out.
RouteIds == {"route1"}

\* Request identifiers the host assigns.
RequestIds == {"req1", "req2"}

\* Property names every object literal inherits from Object.prototype.
\* Object.prototype.constructor is the function Object, which returns its
\* first argument when called.
ObjectPrototypeKeys == {"constructor"}

\* A field that is missing from a frame reads as undefined.
Undefined == "undefined"

\* routeHandlerId / requestId values an inbound frame can carry.
FrameRouteIds == RouteIds \cup ObjectPrototypeKeys \cup {Undefined}

FrameRequestIds == RequestIds \cup {Undefined}

\* The frames the host can send: the well-formed ones, and the ones with an
\* identifier missing.
Frames ==
  [routeHandlerId : RouteIds, requestId : RequestIds]
    \cup [routeHandlerId : ObjectPrototypeKeys, requestId : {"req1"}]
    \cup {[routeHandlerId |-> Undefined, requestId |-> "req1"],
          [routeHandlerId |-> "route1", requestId |-> Undefined]}

\* Event names the host can send: the three of the protocol, a name neither
\* side knows, and a name that is an inherited property of the table.
RegisteredEventNames ==
  {"http:request:received", "http:response:received", "http:request:complete"}

EventNames == RegisteredEventNames \cup {"http:unknown"} \cup ObjectPrototypeKeys

\* What a user-supplied route callback does when a handler invokes it:
\* returns, asks for a reply frame to be sent to the host, throws an Error,
\* or throws a value that cannot carry properties (throw undefined).
CallbackBehaviours == {"return", "reply", "throw", "throwNullish"}

NoError == "none"

NullishError == "nullish"

\* The key of state that holds the route registry.
RoutesKey == "routes"

EmptyObject == [k \in {} |-> 0]

(***************************************************************************)
(* Lookups: index.ts 24-36.                                                *)
(***************************************************************************)
\* Results of a property read: a raise, an own property, an inherited
\* property, or undefined.
Raised(err) == [tag |-> "raise", err |-> err]

Own(id) == [tag |-> "own", err |-> NoError]

Inherited == [tag |-> "inherited", err |-> NoError]

Absent == [tag |-> "absent", err |-> NoError]

\* getRoute reading a registry captured once, when registerEvents ran
\* (const routes = state('routes')), which is undefined ever after.
getRoute_Captured(st, routeHandlerId) == Raised("TypeError")

\* state('routes')[routeHandlerId]
getRoute(st, routeHandlerId) ==
  IF RoutesKey \notin DOMAIN st
  THEN Raised("TypeError")        \* state('routes') is undefined
  ELSE IF routeHandlerId \in DOMAIN st[RoutesKey]
       THEN Own(routeHandlerId)
       ELSE IF routeHandlerId \in ObjectPrototypeKeys
            THEN Inherited
            ELSE Absent

\* getRequest that finds the route and never looks into its ledger.
getRequest_NoLedger(st, routeHandlerId, requestId) ==
  LET route == getRoute(st, routeHandlerId) IN
  CASE route.tag = "raise" -> route
    [] route.tag = "inherited" -> Raised("TypeError")
    [] OTHER -> Absent

\* route ? route.requests[requestId] : undefined
getRequest(st, routeHandlerId, requestId) ==
  LET route == getRoute(st, routeHandlerId) IN
  CASE route.tag = "raise" -> route
    [] route.tag = "absent" -> Absent
    [] route.tag = "inherited" -> Raised("TypeError")  \* Object.requests is undefined
    [] route.tag = "own" ->
         IF requestId \in DOMAIN st[RoutesKey][routeHandlerId].requests
         THEN Own(requestId)
         ELSE Absent

(***************************************************************************)
(* The route registration API and the request ledger (design document,     *)
(* 4.1): routes are registered by test code while a test runs; a request   *)
(* is a record in its route's ledger.                                      *)
(***************************************************************************)
NewRoute == [requests |-> EmptyObject]

NewRequest == [phase |-> "PENDING"]

registerRoute(st, routeHandlerId, route) ==
  [st EXCEPT ![RoutesKey] = (routeHandlerId :> route) @@ @]

\* Inserts into the owning route's ledger; no insertion when the route is absent.
recordRequest(st, routeHandlerId, requestId, request) ==
  IF getRoute(st, routeHandlerId).tag # "own"
  THEN st
  ELSE [st EXCEPT ![RoutesKey][routeHandlerId].requests = (requestId :> request) @@ @]

RequestOf(st, routeHandlerId, requestId) ==
  st[RoutesKey][routeHandlerId].requests[requestId]

(***************************************************************************)
(* What a handler invocation comes to: the store it leaves, whether it     *)
(* returned, threw, or returned a promise waiting on emitNetEvent, the     *)
(* error thrown, the outbound event emitted, and whether the user          *)
(* callback was invoked.                                                   *)
(***************************************************************************)
Return(st, called) ==
  [st |-> st, res |-> "return", err |-> NoError, emit |-> "", called |-> called]

Throw(st, err, called) ==
  [st |-> st, res |-> "throw", err |-> err, emit |-> "", called |-> called]

Await(st, eventName) ==
  [st |-> st, res |-> "await", err |-> NoError, emit |-> eventName, called |-> TRUE]

\* The user callback of a phase, then the follow-up emission it asks for.
RunCallback(st, cb, replyEvent) ==
  CASE cb = "throw" -> Throw(st, "CallbackError", TRUE)
    [] cb = "throwNullish" -> Throw(st, NullishError, TRUE)
    [] cb = "reply" -> Await(st, replyEvent)
    [] OTHER -> Return(st, TRUE)

MissingIdentifiers(frame) ==
  frame.routeHandlerId = Undefined \/ frame.requestId = Undefined

(***************************************************************************)
(* The lifecycle handlers (design document, 4.2).                          *)
(***************************************************************************)
onRequestReceived(st, frame, cb) ==
  LET request == getRequest(st, frame.routeHandlerId, frame.requestId) IN
  CASE MissingIdentifiers(frame) -> Throw(st, "ProtocolViolation", FALSE)
    [] OTHER ->
      CASE request.tag = "raise" -> Throw(st, request.err, FALSE)
        [] getRoute(st, frame.routeHandlerId).tag = "absent" -> Return(st, FALSE)
        [] request.tag = "own" -> Return(st, FALSE)
        [] OTHER ->
             RunCallback(recordRequest(st, frame.routeHandlerId, frame.requestId, NewRequest),
                         cb, "http:request:continue")

onResponseReceived(st, frame, cb) ==
  LET request == getRequest(st, frame.routeHandlerId, frame.requestId) IN
  CASE MissingIdentifiers(frame) -> Throw(st, "ProtocolViolation", FALSE)
    [] OTHER ->
      CASE request.tag = "raise" -> Throw(st, request.err, FALSE)
        [] request.tag = "absent" -> Return(st, FALSE)
        [] OTHER ->
             IF RequestOf(st, frame.routeHandlerId, frame.requestId).phase = "PENDING"
             THEN RunCallback(
                    recordRequest(st, frame.routeHandlerId, frame.requestId,
                                  [phase |-> "RESPONSE_RECEIVED"]),
                    cb, "http:response:continue")
             ELSE Return(st, FALSE)

onRequestComplete(st, frame, cb) ==
  LET request == getRequest(st, frame.routeHandlerId, frame.requestId) IN
  CASE MissingIdentifiers(frame) -> Throw(st, "ProtocolViolation", FALSE)
    [] OTHER ->
      CASE request.tag = "raise" -> Throw(st, request.err, FALSE)
        [] request.tag = "absent" -> Return(st, FALSE)
        [] OTHER ->
             IF RequestOf(st, frame.routeHandlerId, frame.requestId).phase = "COMPLETE"
             THEN Return(st, FALSE)
             ELSE Return(
                    recordRequest(st, frame.routeHandlerId, frame.requestId,
                                  [RequestOf(st, frame.routeHandlerId, frame.requestId)
                                     EXCEPT !.phase = "COMPLETE"]),
                    FALSE)

(***************************************************************************)
(* The dispatcher: index.ts 15-19 and 57-69.                               *)
(***************************************************************************)
\* The table with onRequestComplete entered under 'http:response:received'.
netEventHandlers_ResponseAsComplete(eventName) ==
  CASE eventName = "http:request:received" -> "onRequestReceived"
    [] eventName = "http:response:received" -> "onRequestComplete"
    [] eventName = "http:request:complete" -> "onRequestComplete"
    [] eventName \in ObjectPrototypeKeys -> "Object"
    [] OTHER -> Undefined

\* The table with the 'http:request:complete' entry left out.
netEventHandlers_NoComplete(eventName) ==
  CASE eventName = "http:request:received" -> "onRequestReceived"
    [] eventName = "http:response:received" -> "onResponseReceived"
    [] eventName \in ObjectPrototypeKeys -> "Object"
    [] OTHER -> Undefined

\* netEventHandlers[eventName]: an own property of the table, a property the
\* table inherits from Object.prototype, or undefined.
netEventHandlers(eventName) ==
  CASE eventName = "http:request:received" -> "onRequestReceived"
    [] eventName = "http:response:received" -> "onResponseReceived"
    [] eventName = "http:request:complete" -> "onRequestComplete"
    [] eventName \in ObjectPrototypeKeys -> "Object"
    [] OTHER -> Undefined

\* The handler called without the frame: handler(Cypress, undefined, {...}).
CallHandler_NoFrame(handler, st, frame, cb) ==
  CASE handler = "onRequestReceived" -> onRequestReceived(st, [routeHandlerId |-> Undefined, requestId |-> Undefined], cb)
    [] handler = "onResponseReceived" -> onResponseReceived(st, [routeHandlerId |-> Undefined, requestId |-> Undefined], cb)
    [] handler = "onRequestComplete" -> onRequestComplete(st, [routeHandlerId |-> Undefined, requestId |-> Undefined], cb)
    [] handler = "Object" -> Return(st, FALSE)
    [] OTHER -> Throw(st, "TypeError", FALSE)

\* handler(Cypress, frame, { getRoute, getRequest, emitNetEvent, failCurrentTest })
CallHandler(handler, st, frame, cb) ==
  CASE handler = "onRequestReceived" -> onRequestReceived(st, frame, cb)
    [] handler = "onResponseReceived" -> onResponseReceived(st, frame, cb)
    [] handler = "onRequestComplete" -> onRequestComplete(st, frame, cb)
    [] handler = "Object" -> Return(st, FALSE)       \* Object(Cypress, ...) returns Cypress
    [] OTHER -> Throw(st, "TypeError", FALSE)        \* undefined is not a function

\* The handler called outside Bluebird.try: a synchronous throw leaves the
\* listener, and only a returned promise is chained.
BluebirdTry_DirectCall(out) ==
  [settled |-> CASE out.res = "await" -> "pending"
                 [] OTHER -> "resolved",
   reason |-> NoError,
   escaped |-> (out.res = "throw")]

\* Bluebird.try(fn): the promise fn's outcome settles, and whether the
\* exception escapes to the caller of the listener.
BluebirdTry(out) ==
  [settled |-> CASE out.res = "throw" -> "rejected"
                 [] out.res = "await" -> "pending"
                 [] OTHER -> "resolved",
   reason |-> out.err,
   escaped |-> FALSE]

\* .then(failCurrentTest) in place of .catch(failCurrentTest): failCurrentTest
\* is called with the handler's result (undefined) when it returns, and not
\* when it fails.
BluebirdCatch_Then(promise) ==
  IF promise.settled = "resolved" THEN <<NullishError>> ELSE <<>>

\* The chain without its .catch.
BluebirdCatch_None(promise) == <<>>

\* .catch(failCurrentTest): the arguments failCurrentTest is called with.
BluebirdCatch(promise) ==
  IF promise.settled = "rejected" THEN <<promise.reason>> ELSE <<>>

(***************************************************************************)
(* Capabilities: index.ts 38-50.                                           *)
(***************************************************************************)
\* emitNetEvent sending the envelope twice.
emitNetEvent_Twice(trips, eventName, frame) ==
  trips (+) SetToBag({[eventName |-> eventName, frame |-> frame, testEnded |-> FALSE]})
        (+) SetToBag({[eventName |-> eventName, frame |-> frame, testEnded |-> FALSE]})

\* Cypress.backend('net', eventName, frame): one round trip to the host.
\* testEnded is history: whether a test:before:run has fired since.
emitNetEvent(trips, eventName, frame) ==
  trips (+) SetToBag({[eventName |-> eventName, frame |-> frame, testEnded |-> FALSE]})

\* failCurrentTest calling Cypress.cy.fail(err) itself, with no setImmediate.
failCurrentTest_Sync(queue, err) ==
  IF err = NullishError
  THEN [raised |-> TRUE, queue |-> queue, ran |-> <<>>]
  ELSE [raised |-> FALSE, queue |-> queue,
        ran |-> <<[err |-> err, fromSpec |-> TRUE, testEnded |-> FALSE]>>]

\* err.fromSpec = true raises when err is undefined or null, and then no
\* setImmediate is scheduled; otherwise the tagged error is queued for
\* Cypress.cy.fail.  testEnded is history, as for a round trip.
\* `ran` lists the Cypress.cy.fail calls made before failCurrentTest returns:
\* none.
failCurrentTest(queue, err) ==
  IF err = NullishError
  THEN [raised |-> TRUE, queue |-> queue, ran |-> <<>>]
  ELSE [raised |-> FALSE,
        queue |-> Append(queue, [err |-> err, fromSpec |-> TRUE, testEnded |-> FALSE]),
        ran |-> <<>>]

\* The calls of failCurrentTest in `args` (none or one), in order.
Attribute(queue, args) ==
  IF args = <<>>
  THEN [raised |-> FALSE, queue |-> queue, ran |-> <<>>]
  ELSE failCurrentTest(queue, args[1])

(***************************************************************************)
(* What the last step did.                                                 *)
(***************************************************************************)
NoFrame == [routeHandlerId |-> Undefined, requestId |-> Undefined]

\* Where a frame's request stands in the registry: no registry, no such
\* route, no such request in the route's ledger, or the request's phase.
Status(st, frame) ==
  IF RoutesKey \notin DOMAIN st
  THEN "unset"
  ELSE IF frame.routeHandlerId \notin DOMAIN st[RoutesKey]
       THEN "noroute"
       ELSE IF frame.requestId \notin DOMAIN st[RoutesKey][frame.routeHandlerId].requests
            THEN "norequest"
            ELSE st[RoutesKey][frame.routeHandlerId].requests[frame.requestId].phase

Quiet(op) ==
  [op |-> op, eventName |-> "", frame |-> NoFrame, handler |-> "",
   before |-> "", cb |-> "notcalled", thrown |-> NoError, failArgs |-> <<>>,
   failRaised |-> FALSE, escaped |-> FALSE, emitted |-> "",
   mutated |-> FALSE, ran |-> <<>>, settled |-> <<>>]

MarkTestEnded(seq) == [j \in 1..Len(seq) |-> [seq[j] EXCEPT !.testEnded = TRUE]]

\* The same for the bag of round trips.
Ended(trip) == [trip EXCEPT !.testEnded = TRUE]

MarkTripsEnded(trips) ==
  LET after == {Ended(trip) : trip \in BagToSet(trips)} IN
  [trip \in after |->
     (IF BagIn(trip, trips) THEN CopiesIn(trip, trips) ELSE 0)
       + (IF BagIn([trip EXCEPT !.testEnded = FALSE], trips)
          THEN CopiesIn([trip EXCEPT !.testEnded = FALSE], trips) ELSE 0)]

\* The outbound events the handlers emit, and the one the imperative route
\* API emits through the emitNetEvent that registerEvents returns.
HandlerEmissions == {"http:request:continue", "http:response:continue"}

RouteAdded == "route:added"

\* Every round trip the model can hold.
Trips ==
  [eventName : HandlerEmissions,
   frame : [routeHandlerId : RouteIds, requestId : RequestIds],
   testEnded : BOOLEAN]
    \cup [eventName : {RouteAdded},
          frame : [routeHandlerId : RouteIds, requestId : {Undefined}],
          testEnded : BOOLEAN]

\* No project has been opened: the configuration merge has nothing to do.
NoProject == [stage |-> "none"]

(***************************************************************************)
(* The state after registerEvents has returned: index.ts 21-72.  Nothing   *)
(* has set state('routes') yet.                                            *)
(***************************************************************************)
Init ==
  /\ state = EmptyObject
  /\ pending = EmptyBag
  /\ immediates = <<>>
  /\ last = Quiet("registerEvents")
  /\ project = NoProject

\* The hook creating the registry only when there is none yet:
\* state('routes', state('routes') || {}).
OnTestBeforeRun_KeepRoutes ==
  /\ state' = state @@ (RoutesKey :> EmptyObject)
  /\ pending' = MarkTripsEnded(pending)
  /\ immediates' = MarkTestEnded(immediates)
  /\ UNCHANGED project
  /\ last' = [Quiet("test:before:run") EXCEPT !.mutated = (state' # state)]

\* Cypress.on('test:before:run', ...): state('routes', {})
OnTestBeforeRun ==
  /\ state' = (RoutesKey :> EmptyObject) @@ state
  /\ pending' = MarkTripsEnded(pending)
  /\ immediates' = MarkTestEnded(immediates)
  /\ UNCHANGED project
  /\ last' = [Quiet("test:before:run") EXCEPT !.mutated = (state' # state)]

\* Test code registers a route while its test runs: the imperative route API
\* puts the route in the registry and tells the host, with the emitNetEvent
\* that registerEvents returned.
RegisterRoute(routeHandlerId) ==
  LET frame == [routeHandlerId |-> routeHandlerId, requestId |-> Undefined] IN
  /\ getRoute(state, routeHandlerId).tag = "absent"
  /\ BagCardinality(pending) < MaxPending
  /\ state' = registerRoute(state, routeHandlerId, NewRoute)
  /\ pending' = emitNetEvent(pending, RouteAdded, frame)
  /\ UNCHANGED project
  /\ last' = [Quiet("registerRoute") EXCEPT !.eventName = RouteAdded,
                                            !.frame = frame,
                                            !.emitted = RouteAdded,
                                            !.mutated = TRUE]
  /\ UNCHANGED immediates

\* A listener that takes the next event only when no handler is waiting on a
\* round trip: the events are handled one after the other.
OnNetEvent_Serialised(eventName, frame, cb) ==
  /\ pending = EmptyBag
  /\ LET handler == netEventHandlers(eventName)
           out == CallHandler(handler, state, frame, cb)
           promise == BluebirdTry(out)
           failArgs == BluebirdCatch(promise)
           fail == Attribute(immediates, failArgs)
       IN  /\ promise.settled = "pending" => BagCardinality(pending) < MaxPending
           /\ Len(fail.queue) <= MaxImmediates
           /\ state' = out.st
           /\ pending' = IF promise.settled = "pending"
                         THEN emitNetEvent(pending, out.emit, frame)
                         ELSE pending
           /\ immediates' = fail.queue
           /\ UNCHANGED project
           /\ last' = [op |-> "net:event", eventName |-> eventName, frame |-> frame,
                       handler |-> handler, before |-> Status(state, frame),
                       cb |-> IF out.called THEN cb ELSE "notcalled",
                       thrown |-> IF out.res = "throw" THEN out.err ELSE NoError,
                       failArgs |-> failArgs, failRaised |-> fail.raised,
                       escaped |-> promise.escaped, emitted |-> out.emit,
                       mutated |-> (out.st # state), ran |-> fail.ran, settled |-> <<>>]

\* Cypress.on('net:event', (eventName, frame) => ...)
OnNetEvent(eventName, frame, cb) ==
  LET handler == netEventHandlers(eventName)
      out == CallHandler(handler, state, frame, cb)
      promise == BluebirdTry(out)
      failArgs == BluebirdCatch(promise)
      fail == Attribute(immediates, failArgs)
  IN  /\ promise.settled = "pending" => BagCardinality(pending) < MaxPending
      /\ Len(fail.queue) <= MaxImmediates
      /\ state' = out.st
      /\ pending' = IF promise.settled = "pending"
                    THEN emitNetEvent(pending, out.emit, frame)
                    ELSE pending
      /\ immediates' = fail.queue
      /\ UNCHANGED project
      /\ last' = [op |-> "net:event", eventName |-> eventName, frame |-> frame,
                  handler |-> handler, before |-> Status(state, frame),
                  cb |-> IF out.called THEN cb ELSE "notcalled",
                  thrown |-> IF out.res = "throw" THEN out.err ELSE NoError,
                  failArgs |-> failArgs, failRaised |-> fail.raised,
                  escaped |-> promise.escaped, emitted |-> out.emit,
                  mutated |-> (out.st # state), ran |-> fail.ran, settled |-> <<>>]

\* The promise chain of the listener once the round trip of a waiting handler
\* has settled; a round trip started by an outside caller settles for that
\* caller, outside the listener's chain.
ChainAfter(trip, settled, reason) ==
  IF trip.eventName \in HandlerEmissions
  THEN BluebirdCatch([settled |-> settled, reason |-> reason, escaped |-> FALSE])
  ELSE <<>>

\* What the promise of the waiting handler rejects with when its round trip
\* rejects; no handler waits on a round trip an outside caller started.
HandlerRejection(trip) ==
  IF trip.eventName \in HandlerEmissions THEN "BackendError" ELSE NoError

\* The host acknowledges a round trip: the waiting handler's promise resolves.
BackendResolve(trip) ==
  LET failArgs == ChainAfter(trip, "resolved", NoError)
      fail == Attribute(immediates, failArgs)
  IN  /\ BagIn(trip, pending)
      /\ Len(fail.queue) <= MaxImmediates
      /\ pending' = pending (-) SetToBag({trip})
      /\ immediates' = fail.queue
      /\ UNCHANGED project
      /\ last' = [Quiet("backend:resolve") EXCEPT !.eventName = trip.eventName,
                                                  !.frame = trip.frame,
                                                  !.failArgs = failArgs,
                                                  !.failRaised = fail.raised,
                                                  !.ran = fail.ran,
                                                  !.settled = <<trip>>]
      /\ UNCHANGED state

\* A round trip rejects: the promise of the waiting handler, if there is one,
\* rejects, and .catch(failCurrentTest) runs.
BackendReject(trip) ==
  LET failArgs == ChainAfter(trip, "rejected", "BackendError")
      fail == Attribute(immediates, failArgs)
  IN  /\ BagIn(trip, pending)
      /\ Len(fail.queue) <= MaxImmediates
      /\ pending' = pending (-) SetToBag({trip})
      /\ immediates' = fail.queue
      /\ UNCHANGED project
      /\ last' = [Quiet("backend:reject") EXCEPT !.eventName = trip.eventName,
                                                 !.frame = trip.frame,
                                                 !.thrown = HandlerRejection(trip),
                                                 !.failArgs = failArgs,
                                                 !.failRaised = fail.raised,
                                                 !.ran = fail.ran,
                                                 !.settled = <<trip>>]
      /\ UNCHANGED state

\* setImmediate(() => Cypress.cy.fail(err)): the oldest scheduled callback runs.
RunImmediate ==
  /\ immediates # <<>>
  /\ immediates' = Tail(immediates)
  /\ UNCHANGED project
  /\ last' = [Quiet("cy.fail") EXCEPT !.ran = <<Head(immediates)>>]
  /\ UNCHANGED <<state, pending>>

\* The inputs of a dispatch that make a difference: a handler that is not one
\* of the three never reads the frame, and the callback's behaviour matters
\* only when the handler invokes it.
FramesFor(eventName) ==
  IF eventName \in RegisteredEventNames
  THEN Frames
  ELSE {[routeHandlerId |-> "route1", requestId |-> "req1"]}

CallbacksFor(eventName, frame) ==
  IF CallHandler(netEventHandlers(eventName), state, frame, "return").called
  THEN CallbackBehaviours
  ELSE {"return"}

Next ==
  \/ OnTestBeforeRun
  \/ \E routeHandlerId \in RouteIds : RegisterRoute(routeHandlerId)
  \/ \E eventName \in EventNames : \E frame \in FramesFor(eventName) :
       \E cb \in CallbacksFor(eventName, frame) : OnNetEvent(eventName, frame, cb)
  \/ \E trip \in Trips : BackendResolve(trip)
  \/ \E trip \in Trips : BackendReject(trip)
  \/ RunImmediate

Spec == Init /\ [][Next]_<<vars, project>>

(***************************************************************************)
(* Properties.                                                             *)
(***************************************************************************)
Dispatched == last.op = "net:event"

KnownEvent == Dispatched /\ last.eventName \in RegisteredEventNames

\* No failCurrentTest call in the last step, and nothing raised by it.
NoFailure == last.failArgs = <<>> /\ ~last.failRaised /\ ~last.escaped

CallbackWellBehaved == last.cb \in {"notcalled", "return", "reply"}

StatusNow == Status(state, last.frame)

Rank(status) ==
  CASE status = "PENDING" -> 1
    [] status = "RESPONSE_RECEIVED" -> 2
    [] status = "COMPLETE" -> 3
    [] OTHER -> 0

\* C1: an inbound event whose name is not one of the three registered names
\* makes exactly one failCurrentTest call and leaves the registry and every
\* ledger as they were.
C1_UnknownEventFailsOnce ==
  (Dispatched /\ last.eventName \notin RegisteredEventNames)
    => (Len(last.failArgs) = 1 /\ ~last.mutated)

\* C2: whenever a handler throws, or the promise it returned rejects,
\* failCurrentTest is called with that very error, and no exception leaves
\* the net:event listener.
C2_HandlerFailureAttributed ==
  /\ Dispatched => ~last.escaped
  /\ (last.op \in {"net:event", "backend:reject"} /\ last.thrown # NoError)
       => last.failArgs = <<last.thrown>>

C2_Witness ==
  /\ last.op = "backend:reject"
  /\ last.thrown = "BackendError"
  /\ last.failArgs = <<"BackendError">>

\* C3: once the test-start hook has run, getRoute(id) is absent for every id.
C3_ResetLeavesNoRoute ==
  last.op = "test:before:run"
    => \A id \in FrameRouteIds : getRoute(state, id).tag = "absent"

\* C4: in every state after registerEvents, getRoute and getRequest for a
\* route id that is not in the registry return absent and do not raise.
C4_UnregisteredLookupAbsent ==
  \A id \in FrameRouteIds, requestId \in FrameRequestIds :
    Status(state, [routeHandlerId |-> id, requestId |-> requestId]) \in {"unset", "noroute"}
      => /\ getRoute(state, id).tag = "absent"
         /\ getRequest(state, id, requestId).tag = "absent"

\* C5: a lifecycle event, carrying both identifiers, for a route the registry
\* no longer holds after a test-start reset is a no-op: no emitNetEvent, no
\* failCurrentTest, nothing inserted.
C5_StaleEventIsNoOp ==
  (/\ KnownEvent
   /\ ~MissingIdentifiers(last.frame)
   /\ last.frame.routeHandlerId \in RouteIds
   /\ last.before = "noroute")
    => (NoFailure /\ last.thrown = NoError /\ last.emitted = "" /\ ~last.mutated)

\* The event arrives for a route of a test that has ended: a handler of that
\* route is still waiting on a round trip it started in that test.
C5_Witness ==
  /\ KnownEvent
  /\ ~MissingIdentifiers(last.frame)
  /\ last.frame.routeHandlerId \in RouteIds
  /\ last.before = "noroute"
  /\ NoFailure
  /\ \E trip \in BagToSet(pending) :
       trip.testEnded /\ trip.frame.routeHandlerId = last.frame.routeHandlerId

\* C6: a user callback that throws during 'http:request:received' makes
\* exactly one failCurrentTest call, with the thrown value, and that value is
\* tagged fromSpec and queued for Cypress.cy.fail.
C6_CallbackThrowTagged ==
  (/\ Dispatched
   /\ last.eventName = "http:request:received"
   /\ last.cb \in {"throw", "throwNullish"})
    => /\ last.failArgs = <<last.thrown>>
       /\ ~last.failRaised
       /\ immediates # <<>>
       /\ immediates[Len(immediates)] =
            [err |-> last.thrown, fromSpec |-> TRUE, testEnded |-> FALSE]

\* C7: no step of a test moves a request to an earlier phase or removes it,
\* and a lifecycle event for a request that is COMPLETE changes nothing and
\* attributes no failure.
C7_PhaseMonotonic ==
  [][\A f \in [routeHandlerId : RouteIds, requestId : RequestIds] :
       /\ (last'.op # "test:before:run" /\ Rank(Status(state, f)) > 0)
            => Rank(Status(state', f)) >= Rank(Status(state, f))
       /\ (/\ last'.op = "net:event"
           /\ last'.frame = f
           /\ last'.eventName \in RegisteredEventNames
           /\ Status(state, f) = "COMPLETE")
            => (/\ state' = state
                /\ last'.failArgs = <<>>
                /\ ~last'.failRaised
                /\ ~last'.escaped)]_vars

\* A received event reaches a request that is already COMPLETE.
C7_Witness ==
  /\ Dispatched
  /\ last.eventName = "http:request:received"
  /\ last.before = "COMPLETE"
  /\ StatusNow = "COMPLETE"

\* C8: on a registered route, received creates the request in PENDING,
\* response-received moves it from PENDING to RESPONSE_RECEIVED, complete
\* moves it from RESPONSE_RECEIVED to COMPLETE, and none of the three steps
\* calls failCurrentTest (the route's callbacks not throwing).
C8_FullLifecycle ==
  KnownEvent =>
    /\ (last.eventName = "http:request:received" /\ last.before = "norequest"
          /\ ~MissingIdentifiers(last.frame))
         => (StatusNow = "PENDING" /\ (CallbackWellBehaved => NoFailure))
    /\ (last.eventName = "http:response:received" /\ last.before = "PENDING")
         => (StatusNow = "RESPONSE_RECEIVED" /\ (CallbackWellBehaved => NoFailure))
    /\ (last.eventName = "http:request:complete" /\ last.before = "RESPONSE_RECEIVED")
         => (StatusNow = "COMPLETE" /\ NoFailure)

C8_Witness ==
  /\ KnownEvent
  /\ last.eventName = "http:request:complete"
  /\ last.before = "RESPONSE_RECEIVED"
  /\ StatusNow = "COMPLETE"
  /\ NoFailure
  /\ immediates = <<>>

\* C9: complete for a request in PENDING moves it straight to COMPLETE and
\* does not call failCurrentTest.
C9_CompleteFromPending ==
  (KnownEvent /\ last.eventName = "http:request:complete" /\ last.before = "PENDING")
    => (StatusNow = "COMPLETE" /\ NoFailure)

C9_Witness ==
  /\ KnownEvent
  /\ last.eventName = "http:request:complete"
  /\ last.before = "PENDING"
  /\ StatusNow = "COMPLETE"
  /\ NoFailure

ScheduledLast ==
  /\ ~last.failRaised
  /\ immediates # <<>>
  /\ immediates[Len(immediates)].err = last.failArgs[1]
  /\ ~immediates[Len(immediates)].testEnded

\* C11: a step that calls failCurrentTest(err) makes no Cypress.cy.fail call
\* itself and leaves exactly one callback scheduled for err; a Cypress.cy.fail
\* call happens only in a later step of its own, for the oldest scheduled
\* callback.
C11_FailDeferredOnce ==
  /\ last.failArgs # <<>> => (last.ran = <<>> /\ ScheduledLast)
  /\ last.ran # <<>> => (last.op = "cy.fail" /\ last.failArgs = <<>>)

\* C12: every Cypress.cy.fail call is for a failure attributed during the test
\* that is still the current one: no test:before:run has come between the
\* failCurrentTest call and the run of its scheduled callback.
C12_FailsTheTestOfTheEvent ==
  last.ran # <<>> => ~last.ran[1].testEnded

\* C13: getRequest(routeHandlerId, requestId) is the entry stored under
\* requestId when the route is registered and its ledger holds the request,
\* and absent when the route is registered without that request or the route
\* is not registered.
C13_GetRequestResolves ==
  \A id \in FrameRouteIds, requestId \in FrameRequestIds :
    LET status == Status(state, [routeHandlerId |-> id, requestId |-> requestId])
    IN  IF status \in {"PENDING", "RESPONSE_RECEIVED", "COMPLETE"}
        THEN getRequest(state, id, requestId) = Own(requestId)
        ELSE getRequest(state, id, requestId) = Absent

\* The requests test code can have in a ledger.
LedgerFrames == [routeHandlerId : RouteIds, requestId : RequestIds]

LookupOf(frame) == getRequest(state, frame.routeHandlerId, frame.requestId)

Alone(eventName, before) ==
  CASE eventName = "http:request:received" /\ before = "norequest" -> "PENDING"
    [] eventName = "http:response:received" /\ before = "PENDING" -> "RESPONSE_RECEIVED"
    [] eventName = "http:request:complete" /\ before \in {"PENDING", "RESPONSE_RECEIVED"}
         -> "COMPLETE"
    [] OTHER -> before

\* C16: while the handler of one request waits on a round trip it began in
\* the running test, an event of another request can be dispatched; a
\* dispatch changes the phase of no request but its own, and the phase its
\* own request gets depends on the event and on that request's phase only,
\* whatever else is waiting.
C16_NotSerialised ==
  /\ [](\A trip \in BagToSet(pending), frame \in LedgerFrames :
          (trip.eventName \in HandlerEmissions /\ ~trip.testEnded /\ frame # trip.frame)
            => ENABLED OnNetEvent("http:request:complete", frame, "return"))
  /\ [][/\ last'.op = "net:event"
             => \A frame \in LedgerFrames :
                  frame # last'.frame => Status(state', frame) = Status(state, frame)
        /\ (last'.op = "net:event" /\ last'.eventName \in RegisteredEventNames
              /\ last'.frame \in LedgerFrames /\ last'.before # "unset")
             => Status(state', last'.frame) = Alone(last'.eventName, last'.before)]_vars

\* The second request went through to COMPLETE while the handler of the
\* first is still waiting on its round trip.
C16_Witness ==
  /\ KnownEvent
  /\ last.frame = [routeHandlerId |-> "route1", requestId |-> "req2"]
  /\ last.mutated
  /\ StatusNow = "COMPLETE"
  /\ \E trip \in BagToSet(pending) :
       /\ ~trip.testEnded
       /\ trip.eventName \in HandlerEmissions
       /\ trip.frame = [routeHandlerId |-> "route1", requestId |-> "req1"]
       /\ Status(state, trip.frame) = "PENDING"

\* The same event delivered once more, right after the last step.
Redelivered(cb) == CallHandler(last.handler, state, last.frame, cb)

\* C17: for the events of one request of a registered or reset registry, in
\* any order and number: no exception leaves the listener and, the route's
\* callback not throwing a nullish value, failCurrentTest raises nothing; an
\* event that comes before the request's received event, or again after it
\* has been applied, changes nothing and is not a failure; and delivering the
\* event again right away changes nothing, emits nothing and throws nothing,
\* so the ledger's one entry has the phase of a single delivery.
C17_DuplicatesAreIdempotent ==
  (KnownEvent /\ last.frame \in LedgerFrames /\ last.before # "unset") =>
    /\ ~last.escaped
    /\ CallbackWellBehaved => ~last.failRaised
    /\ (last.eventName # "http:request:received" /\ last.before = "norequest")
         => (~last.mutated /\ NoFailure)
    /\ (last.eventName = "http:request:received"
          /\ last.before \in {"PENDING", "RESPONSE_RECEIVED", "COMPLETE"})
         => (~last.mutated /\ NoFailure)
    /\ (last.eventName = "http:response:received"
          /\ last.before \in {"RESPONSE_RECEIVED", "COMPLETE"})
         => (~last.mutated /\ NoFailure)
    /\ (last.eventName = "http:request:complete" /\ last.before = "COMPLETE")
         => (~last.mutated /\ NoFailure)
    /\ \A cb \in CallbackBehaviours :
         /\ Redelivered(cb).st = state
         /\ Redelivered(cb).res = "return"
         /\ ~Redelivered(cb).called

\* A second response-received event for a request that already has one.
C17_Witness ==
  /\ KnownEvent
  /\ last.eventName = "http:response:received"
  /\ last.before = "RESPONSE_RECEIVED"
  /\ StatusNow = "RESPONSE_RECEIVED"
  /\ NoFailure

\* C18: no exception leaves the net:event listener, whatever the event name
\* and the frame; Cypress.cy.fail is called only by a scheduled callback, in
\* a step of its own, for the oldest callback of the queue; and a callback
\* enters the queue only by a failCurrentTest call, with that call's error,
\* tagged fromSpec.
C18_OnlyThroughFailCurrentTest ==
  /\ [](Dispatched => ~last.escaped)
  /\ [](last.ran # <<>> => last.op = "cy.fail")
  /\ [][/\ last'.ran # <<>>
             => (immediates # <<>> /\ last'.ran = <<Head(immediates)>>
                   /\ immediates' = Tail(immediates))
        /\ Len(immediates') > Len(immediates)
             => /\ Len(immediates') = Len(immediates) + 1
                /\ last'.failArgs = <<immediates'[Len(immediates')].err>>
                /\ immediates'[Len(immediates')].fromSpec]_vars

\* The failure of an event with an unknown name reaches Cypress.cy.fail.
C18_Witness ==
  /\ last.op = "cy.fail"
  /\ last.ran # <<>>
  /\ last.ran[1].err = "TypeError"
  /\ last.ran[1].fromSpec

\* One invocation of the handler the protocol names for a lifecycle event,
\* on the frame as it arrived.
InvokedOnce(eventName, st, frame, cb) ==
  CASE eventName = "http:request:received" -> onRequestReceived(st, frame, cb)
    [] eventName = "http:response:received" -> onResponseReceived(st, frame, cb)
    [] eventName = "http:request:complete" -> onRequestComplete(st, frame, cb)

\* C19: the three registered names map to three distinct handlers, and a
\* dispatch of a registered name does what one invocation of that name's
\* handler on the unchanged frame does, with getRoute, getRequest,
\* emitNetEvent and failCurrentTest at its disposal: same registry and
\* ledgers, same emission (one round trip for the same frame, or none), same
\* throw.
C19_OneHandlerOnce ==
  /\ [](Cardinality({netEventHandlers(eventName) : eventName \in RegisteredEventNames}) = 3)
  /\ [][(last'.op = "net:event" /\ last'.eventName \in RegisteredEventNames) =>
          LET cb == IF last'.cb = "notcalled" THEN "return" ELSE last'.cb
              out == InvokedOnce(last'.eventName, state, last'.frame, cb)
          IN  /\ state' = out.st
              /\ last'.emitted = out.emit
              /\ last'.thrown = (IF out.res = "throw" THEN out.err ELSE NoError)
              /\ out.res = "await"
                   => pending' = pending (+) SetToBag({[eventName |-> out.emit,
                                                        frame |-> last'.frame,
                                                        testEnded |-> FALSE]})
              /\ out.res # "await" => pending' = pending]_vars

\* A response-received event reached its handler, which took the request on
\* and sent its follow-up frame.
C19_Witness ==
  /\ KnownEvent
  /\ last.handler = "onResponseReceived"
  /\ last.before = "PENDING"
  /\ StatusNow = "RESPONSE_RECEIVED"
  /\ last.emitted = "http:response:continue"
  /\ BagIn([eventName |-> "http:response:continue", frame |-> last.frame,
            testEnded |-> FALSE], pending)

\* What one emitNetEvent(eventName, frame) call puts on the 'net' channel.
Envelope(eventName, frame) ==
  [eventName |-> eventName, frame |-> frame, testEnded |-> FALSE]

\* C20: an emitNetEvent call, by a handler or by an outside caller, puts
\* exactly one envelope with its event name and frame on the 'net' channel
\* and changes nothing else there; the round trip stays pending until the
\* backend settles it, and settling takes away that one envelope: a
\* resolution raises nothing, a rejection is the rejection of the waiting
\* handler's promise.
C20_OneEnvelope ==
  [][/\ last'.emitted # ""
          => pending' = pending (+) SetToBag({Envelope(last'.emitted, last'.frame)})
     /\ (last'.emitted = "" /\ last'.settled = <<>>)
          => BagCardinality(pending') = BagCardinality(pending)
     /\ last'.op = "registerRoute"
          => (last'.emitted = RouteAdded /\ immediates' = immediates)
     /\ last'.settled # <<>>
          => /\ BagIn(last'.settled[1], pending)
             /\ pending' = pending (-) SetToBag({last'.settled[1]})
             /\ last'.op = "backend:resolve" => last'.thrown = NoError
             /\ (last'.op = "backend:reject"
                   /\ last'.settled[1].eventName \in HandlerEmissions)
                  => last'.thrown = "BackendError"]_vars

\* The frame of the route API is the one envelope on the channel.
C20_Witness ==
  /\ last.op = "registerRoute"
  /\ last.emitted = RouteAdded
  /\ pending = SetToBag({Envelope(RouteAdded, last.frame)})

(***************************************************************************)
(* The configuration merge: packages/server/lib/config.js.                 *)
(*                                                                         *)
(* Objects are functions from property names to values.  A value is a      *)
(* token: "b:true" and "b:false" are the booleans, "n:0", "n:1", ... the   *)
(* numbers, any other string is that string.  What process.env holds is    *)
(* always a string.                                                        *)
(***************************************************************************)
\* The largest number a property named 'length' is given.
MaxLength == 1

True == "b:true"

False == "b:false"

\* The numbers of the model, as tokens and as the string process.env holds.
NumberTokens == <<"n:0", "n:1", "n:2", "n:3">>

NumberStrings == <<"0", "1", "2", "3">>

Number(n) == NumberTokens[n + 1]

\* The default of numTestsKeptInMemory.
Fifty == "n:50"

IsNumber(val) == val = Fifty \/ \E i \in 1..Len(NumberTokens) : NumberTokens[i] = val

IsBoolean(val) == val \in {True, False}

\* The number a token of 0..3 stands for.
ValueOf(val) == (CHOOSE i \in 1..Len(NumberTokens) : NumberTokens[i] = val) - 1

\* coerce(value): a string that spells a number or a boolean becomes it.
coerce(value) ==
  CASE \E i \in 1..Len(NumberStrings) : NumberStrings[i] = value ->
         NumberTokens[CHOOSE i \in 1..Len(NumberStrings) : NumberStrings[i] = value]
    [] value = "true" -> True
    [] value = "false" -> False
    [] OTHER -> value

\* obj[key], undefined when obj has no such property.
Get(obj, key) == IF key \in DOMAIN obj THEN obj[key] ELSE Undefined

\* _.extend(target, source): the properties of source win.
Extend(target, source) == source @@ target

\* lodash's isArrayLike: a length property that is a number (0 or more).
IsArrayLike(obj) == "length" \in DOMAIN obj /\ IsNumber(obj["length"]) /\ obj["length"] # Fifty

\* The property name of array index i.
IndexKey(i) == NumberStrings[i + 1]

\* The keys _.each and _.reduce hand to their callback: the indexes below
\* obj.length when obj is array-like, the own property names otherwise.
EachKeys(obj) ==
  IF IsArrayLike(obj)
  THEN {IndexKey(i) : i \in 0..(ValueOf(obj["length"]) - 1)}
  ELSE DOMAIN obj

CYPRESS_RESERVED_ENV_VARS == {"CYPRESS_INTERNAL_ENV"}

CYPRESS_SPECIAL_ENV_VARS == {"CI_KEY", "RECORD_KEY"}

\* The names process.env can hold, and what is left of each once the
\* CYPRESS_ prefix is cut off ("" for a name without the prefix).
EnvNames ==
  [CYPRESS_foo |-> "foo",
   CYPRESS_length |-> "length",
   CYPRESS_RECORD_KEY |-> "RECORD_KEY",
   CYPRESS_WATCH_FOR_FILE_CHANGES |-> "WATCH_FOR_FILE_CHANGES",
   CYPRESS_numTestsKeptInMemory |-> "numTestsKeptInMemory",
   CYPRESS_INTERNAL_FORCE_FILEWATCH |-> "INTERNAL_FORCE_FILEWATCH",
   CYPRESS_INTERNAL_ENV |-> "INTERNAL_ENV",
   HOME |-> ""]

isCypressEnvLike(key) ==
  /\ key \in DOMAIN EnvNames
  /\ EnvNames[key] # ""
  /\ key \notin CYPRESS_RESERVED_ENV_VARS

removeEnvPrefix(key) == EnvNames[key]

\* keys.hide keeps the first and the last five characters of a key.
hideSpecialVals(val, key) ==
  IF key \in CYPRESS_SPECIAL_ENV_VARS
  THEN (IF val = "abcde-12345-vwxyz" THEN "abcde...vwxyz" ELSE "...")
  ELSE val

\* The defaults of the configuration keys the model follows.
CONFIG_DEFAULTS ==
  [isTextTerminal |-> False,
   numTestsKeptInMemory |-> Fifty,
   watchForFileChanges |-> True]

\* The keys of a configuration file and of the CLI options that are
\* configuration (env is handled by parseEnv).
configKeys == {"numTestsKeptInMemory", "watchForFileChanges"}

\* key written in lower case and then in camel case.
camelCase ==
  [foo |-> "foo",
   length |-> "length",
   RECORD_KEY |-> "recordKey",
   WATCH_FOR_FILE_CHANGES |-> "watchForFileChanges",
   numTestsKeptInMemory |-> "numTestsKeptInMemory",
   INTERNAL_FORCE_FILEWATCH |-> "internalForceFilewatch"]

\* The configuration key an environment variable names, undefined if none.
matchesConfigKey(key) ==
  CASE key \in DOMAIN CONFIG_DEFAULTS -> key
    [] key \in DOMAIN camelCase /\ camelCase[key] \in DOMAIN CONFIG_DEFAULTS -> camelCase[key]
    [] OTHER -> Undefined

\* The CYPRESS_ variables of the process environment, prefix removed and
\* values coerced.
getProcessEnvVars(obj) ==
  LET kept == {key \in EachKeys(obj) : isCypressEnvLike(key)}
      names == {removeEnvPrefix(key) : key \in kept}
  IN [name \in names |-> coerce(obj[CHOOSE key \in kept : removeEnvPrefix(key) = name])]

\* What resolved holds for a key set through the CLI options ...
FromCli == [value |-> Undefined, from |-> "cli", object |-> FALSE]

\* ... and for a key set by an environment variable or by a plugin.
FromObject(val, from) == [value |-> val, from |-> from, object |-> TRUE]

\* resolveFrom(from, obj) of parseEnv: every key _.each visits is recorded.
resolveFrom(envVars, from, obj) ==
  [key \in DOMAIN envVars \cup EachKeys(obj) |->
     IF key \in EachKeys(obj)
     THEN [value |-> Get(obj, key), from |-> from]
     ELSE envVars[key]]

setByCli_Never(resolved, cfgKey) == FALSE

\* resolved[cfgKey] === 'cli': the key was set through the CLI options.
setByCli(resolved, cfgKey) ==
  cfgKey \in DOMAIN resolved /\ resolved[cfgKey] = FromCli

\* What a call that threw leaves behind: no configuration.
Thrown == [threw |-> TRUE, values |-> EmptyObject, env |-> EmptyObject,
           resolved |-> EmptyObject, resolvedEnv |-> EmptyObject]

(***************************************************************************)
(* parseEnv(cfg, envCLI, resolved).  cfg.env and cfg.envFile are the       *)
(* arguments envCfg and envFile, the scalar keys of cfg are values, and    *)
(* resolved.env is the field resolvedEnv of the result.  _.reduce walks    *)
(* envProc as _.each does: over an array-like envProc the key it hands to  *)
(* matchesConfigKey is an index, a number, and key.toLowerCase throws.     *)
(* Two variables of the model never name the same configuration key.       *)
(***************************************************************************)
parseEnv(values, envCfg, envFile, envCLI, processEnv, resolved) ==
  LET envProc == getProcessEnvVars(processEnv)
      configFromEnv == {key \in EachKeys(envProc) \cap DOMAIN envProc :
                          matchesConfigKey(key) # Undefined}
      changed == {key \in configFromEnv : ~setByCli(resolved, matchesConfigKey(key))}
      cfgKeys == {matchesConfigKey(key) : key \in changed}
      varOf(cfgKey) == CHOOSE key \in changed : matchesConfigKey(key) = cfgKey
      rest == [key \in DOMAIN envProc \ configFromEnv |->
                 hideSpecialVals(envProc[key], key)]
  IN IF IsArrayLike(envProc) /\ EachKeys(envProc) # {}
     THEN Thrown
     ELSE [threw |-> FALSE,
           values |-> [key \in DOMAIN values \cup cfgKeys |->
                         IF key \in cfgKeys THEN envProc[varOf(key)] ELSE values[key]],
           resolved |-> [key \in DOMAIN resolved \cup cfgKeys |->
                           IF key \in cfgKeys
                           THEN FromObject(envProc[varOf(key)], "env")
                           ELSE resolved[key]],
           resolvedEnv |-> resolveFrom(resolveFrom(resolveFrom(resolveFrom(
                             EmptyObject, "config", envCfg), "envFile", envFile),
                             "env", rest), "cli", envCLI),
           env |-> Extend(Extend(Extend(envCfg, envFile), rest), envCLI)]

\* The validation rules of the keys the model follows; validate skips a
\* value that is the default.
validate(cfg) ==
  /\ "watchForFileChanges" \in DOMAIN cfg => IsBoolean(cfg["watchForFileChanges"])
  /\ "numTestsKeptInMemory" \in DOMAIN cfg => IsNumber(cfg["numTestsKeptInMemory"])

isValidCypressInternalEnvValue(value) ==
  value \in {"development", "test", "staging", "production"}

\* resolveConfigValues(config, defaults, resolved) for the scalar keys.
resolveConfigValues(config, defaults, resolved) ==
  [key \in DOMAIN config \cap configKeys |->
     CASE key \in DOMAIN resolved /\ resolved[key].object -> resolved[key]
       [] key \in DOMAIN resolved -> FromObject(config[key], resolved[key].from)
       [] config[key] = defaults[key] -> FromObject(config[key], "default")
       [] OTHER -> FromObject(config[key], "config")]

(***************************************************************************)
(* mergeDefaults(config, options).  config is what the configuration files *)
(* gave: values holds the scalar keys of cypress.json, env its env and     *)
(* envFile the content of cypress.env.json; options are the CLI options,   *)
(* values and env alike; processEnv is process.env.  The result is the     *)
(* configuration with its resolved object, or Thrown.                      *)
(***************************************************************************)
mergeDefaults(config, options, processEnv) ==
  LET picked == [key \in DOMAIN options.values \cap {"isTextTerminal"} |->
                   options.values[key]]
      allowed == [key \in DOMAIN options.values \cap configKeys |->
                    options.values[key]]
      resolved == [key \in DOMAIN allowed |-> FromCli]
      merged == Extend(Extend(config.values, picked), allowed)
      defaulted == merged @@ CONFIG_DEFAULTS
      parsed == parseEnv(defaulted, config.env, config.envFile, options.env,
                         processEnv, resolved)
      headless == /\ parsed.values["isTextTerminal"] = True
                  /\ Get(processEnv, "CYPRESS_INTERNAL_FORCE_FILEWATCH") \in {Undefined, ""}
      final == IF headless
               THEN [parsed.values EXCEPT !["watchForFileChanges"] = False,
                                          !["numTestsKeptInMemory"] = Number(0)]
               ELSE parsed.values
  IN CASE parsed.threw -> Thrown
       [] ~isValidCypressInternalEnvValue(Get(processEnv, "CYPRESS_INTERNAL_ENV")) -> Thrown
       [] ~validate(final) -> Thrown
       [] OTHER -> [threw |-> FALSE,
                    values |-> final,
                    env |-> parsed.env,
                    resolved |-> resolveConfigValues(final, CONFIG_DEFAULTS, parsed.resolved),
                    resolvedEnv |-> parsed.resolvedEnv]

(***************************************************************************)
(* updateWithPluginValues(cfg, overrides): deepDiff keeps the keys of      *)
(* overrides whose value differs from cfg's, setPluginResolvedOn marks     *)
(* them as resolved from the plugin, and _.defaultsDeep(diffs, cfg) lets   *)
(* them win over cfg.                                                      *)
(***************************************************************************)
updateWithPluginValues(cfg, overrides) ==
  LET diffs == [key \in {k \in DOMAIN overrides : Get(cfg.values, k) # overrides[k]} |->
                  overrides[key]]
  IN IF ~validate(overrides)
     THEN Thrown
     ELSE [cfg EXCEPT
             !.values = Extend(cfg.values, diffs),
             !.resolved = [key \in DOMAIN cfg.resolved \cup DOMAIN diffs |->
                             IF key \in DOMAIN diffs
                             THEN FromObject(diffs[key], "plugin")
                             ELSE cfg.resolved[key]]]

(***************************************************************************)
(* The projects the model opens.  An object with an optional property is   *)
(* drawn from Optional, objects are put together with Both.                *)
(***************************************************************************)
Optional(key, vals) == {EmptyObject} \cup {key :> val : val \in vals}

Both(objs, more) == {obj @@ other : obj \in objs, other \in more}

\* cypress.json: its scalar keys and its env.
FileValues ==
  Both(Optional("watchForFileChanges", {False}),
       Optional("numTestsKeptInMemory", {Number(1)}))

FileEnvs ==
  Both(Optional("foo", {"fromConfig"}),
       Optional("length", {Number(n) : n \in 0..MaxLength}))

\* cypress.env.json.
EnvFiles == Optional("foo", {"fromEnvFile"})

\* process.env: CYPRESS_INTERNAL_ENV is set by the time a project opens.
ProcessEnvs ==
  Both({("HOME" :> "/root") @@ ("CYPRESS_INTERNAL_ENV" :> "production")},
  Both(Optional("CYPRESS_foo", {"fromEnv"}),
  Both(Optional("CYPRESS_length", {NumberStrings[n + 1] : n \in 0..MaxLength}),
  Both(Optional("CYPRESS_RECORD_KEY", {"abcde-12345-vwxyz"}),
  Both(Optional("CYPRESS_WATCH_FOR_FILE_CHANGES", {"true"}),
  Both(Optional("CYPRESS_numTestsKeptInMemory", {"2"}),
       Optional("CYPRESS_INTERNAL_FORCE_FILEWATCH", {"1"})))))))

\* The CLI options: configuration keys, isTextTerminal, and env.
OptionValues ==
  Both(Optional("watchForFileChanges", {True, False}),
       Optional("isTextTerminal", {True}))

OptionEnvs == Optional("foo", {"fromCli"})

\* What a plugins file returns.
PluginOverrides ==
  Both(Optional("watchForFileChanges", {True, False, "yes"}),
       Optional("numTestsKeptInMemory", {Number(3)}))

\* A project is opened: its files are read, nothing is merged yet.
ConfigInit ==
  /\ state = EmptyObject
  /\ pending = EmptyBag
  /\ immediates = <<>>
  /\ last = Quiet("registerEvents")
  /\ \E values \in FileValues : \E env \in FileEnvs : \E envFile \in EnvFiles :
       \E optionValues \in OptionValues : \E optionEnv \in OptionEnvs :
         \E processEnv \in ProcessEnvs :
           project = [stage |-> "read",
                      config |-> [values |-> values, env |-> env, envFile |-> envFile],
                      options |-> [values |-> optionValues, env |-> optionEnv],
                      processEnv |-> processEnv]

\* config.set: the configuration of the project is merged.
MergeDefaults ==
  /\ project.stage = "read"
  /\ project' = [stage |-> "merged",
                 config |-> project.config,
                 options |-> project.options,
                 processEnv |-> project.processEnv,
                 cfg |-> mergeDefaults(project.config, project.options, project.processEnv)]
  /\ UNCHANGED vars

\* The plugins file has run and returned overrides; this can happen again
\* on the result.
UpdateWithPluginValues(overrides) ==
  /\ project.stage \in {"merged", "plugins"}
  /\ ~project.cfg.threw
  /\ project' = [stage |-> "plugins",
                 processEnv |-> project.processEnv,
                 cfg |-> updateWithPluginValues(project.cfg, overrides)]
  /\ UNCHANGED vars

ConfigNext ==
  \/ MergeDefaults
  \/ \E overrides \in PluginOverrides : UpdateWithPluginValues(overrides)

ConfigSpec == ConfigInit /\ [][ConfigNext]_<<vars, project>>

(***************************************************************************)
(* Properties of the configuration merge.                                  *)
(***************************************************************************)
\* The merge has returned a configuration of the project that was read.
Merged == project.stage = "merged" /\ ~project.cfg.threw

\* The sources of the user's env in parseEnv, the strongest first, each
\* with the name resolved.env gives it.  The process source is the
\* CYPRESS_ variables that match no configuration key, as parseEnv holds
\* them: prefix removed, coerced, special values hidden.
EnvSources ==
  LET envProc == getProcessEnvVars(project.processEnv)
  IN << [from |-> "cli", obj |-> project.options.env],
        [from |-> "env",
         obj |-> [key \in {k \in DOMAIN envProc : matchesConfigKey(k) = Undefined} |->
                    hideSpecialVals(envProc[key], key)]],
        [from |-> "envFile", obj |-> project.config.envFile],
        [from |-> "config", obj |-> project.config.env] >>

\* The strongest source that defines key.
Winner(key) ==
  EnvSources[CHOOSE i \in 1..Len(EnvSources) :
               /\ key \in DOMAIN EnvSources[i].obj
               /\ \A j \in 1..(i - 1) : key \notin DOMAIN EnvSources[j].obj]

EnvKeys == UNION {DOMAIN EnvSources[i].obj : i \in 1..Len(EnvSources)}

\* C21: once mergeDefaults has returned, every key some source of the env
\* defines has in config.env the value of the strongest source defining it
\* (CLI, then process env, then cypress.env.json, then cypress.json), and
\* config.resolved.env[key].from names that source.
C21_EnvPrecedence ==
  Merged =>
    \A key \in EnvKeys :
      /\ key \in DOMAIN project.cfg.env
      /\ project.cfg.env[key] = Winner(key).obj[key]
      /\ key \in DOMAIN project.cfg.resolvedEnv
      /\ project.cfg.resolvedEnv[key].from = Winner(key).from

\* The CYPRESS_ variables of the process, prefix removed and coerced.
EnvProc == getProcessEnvVars(project.processEnv)

\* Those of them that name a configuration key.
ConfigVars == {key \in DOMAIN EnvProc : matchesConfigKey(key) # Undefined}

\* The configuration keys the CLI options set.
CliKeys == DOMAIN project.options.values \cap configKeys

\* The run is headless: isTextTerminal is set in the configuration and
\* CYPRESS_INTERNAL_FORCE_FILEWATCH is not set in the process.
Headless ==
  /\ project.cfg.values["isTextTerminal"] = True
  /\ Get(project.processEnv, "CYPRESS_INTERNAL_FORCE_FILEWATCH") \in {Undefined, ""}

\* What a headless run makes of the two keys it forces.
HeadlessValues ==
  [watchForFileChanges |-> False, numTestsKeptInMemory |-> Number(0)]

Configured == project.stage \in {"merged", "plugins"} /\ ~project.cfg.threw

\* C23: in a headless run the configuration at hand, after mergeDefaults
\* and after every updateWithPluginValues, has watchForFileChanges false
\* and numTestsKeptInMemory 0.
C23_HeadlessNeverWatches ==
  (Configured /\ Headless) =>
    /\ project.cfg.values["watchForFileChanges"] = False
    /\ project.cfg.values["numTestsKeptInMemory"] = Number(0)

====
